---- MODULE Spec2Model ----
(***************************************************************************)
(* A model of geo-agg-tile-index-example (src/main.go): records holding a  *)
(* point and its stack of map tiles (one per zoom level) are bulk-inserted *)
(* into a collection, and an aggregation pipeline counts the records per   *)
(* tile key at one zoom level and turns every group into a GeoJSON feature.*)
(*                                                                         *)
(* Coordinates are in hundredths of a degree (lon = -7399 is -73.99).      *)
(* Strings are sequences of one-character strings, so that formatting and  *)
(* parsing a tile key are real conversions.                                *)
(***************************************************************************)
EXTENDS Integers, Sequences, FiniteSets, TLC

\* main.go:29-30
minZoom == 0
maxZoom == 13

----------------------------------------------------------------------------
(* Bounds of the model *)

\* most documents the collection holds
MaxRecords == 4
\* most lines of the embedded CSV after its header
MaxBatch == 2
\* longest raw group key drawn for the key-parsing specification
MaxKeyLen == 5

----------------------------------------------------------------------------
(* Arithmetic and strings *)

RECURSIVE Pow2(_)
Pow2(n) == IF n <= 0 THEN 1 ELSE 2 * Pow2(n - 1)

Digits == <<"0", "1", "2", "3", "4", "5", "6", "7", "8", "9">>

IsDigit(c) == \E d \in 1..10 : Digits[d] = c

DigitVal(c) == (CHOOSE d \in 1..10 : Digits[d] = c) - 1

\* fmt's %v of a non-negative integer: its decimal digits, no padding
RECURSIVE FormatUint(_)
FormatUint(n) ==
    IF n < 10 THEN <<Digits[n + 1]>>
    ELSE FormatUint(n \div 10) \o <<Digits[(n % 10) + 1]>>

\* fmt's %v of an int: a minus sign before the digits of a negative one
FormatInt(n) == IF n < 0 THEN <<"-">> \o FormatUint(0 - n) ELSE FormatUint(n)

\* the three numbers with nothing between them
SprintfNoSep(x, y, z) == FormatUint(x) \o FormatUint(y) \o FormatInt(z)

\* fmt.Sprintf("%v-%v-%v", x, y, z) with x, y uint32 and z int (main.go:68)
Sprintf(x, y, z) ==
    FormatUint(x) \o <<"-">> \o FormatUint(y) \o <<"-">> \o FormatInt(z)

\* strings.Split(s, sep) for a one-character sep: the parts between the
\* separators, empty parts included; always at least one part
RECURSIVE SplitFrom(_, _, _, _)
SplitFrom(s, sep, i, cur) ==
    IF i > Len(s) THEN <<cur>>
    ELSE IF s[i] = sep THEN <<cur>> \o SplitFrom(s, sep, i + 1, <<>>)
    ELSE SplitFrom(s, sep, i + 1, Append(cur, s[i]))

Split(s, sep) == SplitFrom(s, sep, 1, <<>>)

RECURSIVE DigitsValue(_, _)
DigitsValue(s, acc) ==
    IF s = <<>> THEN acc ELSE DigitsValue(Tail(s), acc * 10 + DigitVal(Head(s)))

\* strconv.ParseInt(s, 10, 64): an optional sign then one or more decimal
\* digits; anything else is a syntax error and the value returned is 0.
\* (The strings of the model are too short for a range error.)
ParseInt(s) ==
    LET signed == s # <<>> /\ Head(s) \in {"+", "-"}
        body   == IF signed THEN Tail(s) ELSE s
        ok     == body # <<>> /\ \A i \in 1..Len(body) : IsDigit(body[i])
        mag    == IF ok THEN DigitsValue(body, 0) ELSE 0
    IN  [val |-> IF signed /\ Head(s) = "-" THEN 0 - mag ELSE mag,
         err |-> ~ok]

----------------------------------------------------------------------------
(* maptile.At, as called at main.go:61 *)

\* floor(lat_fraction * 2^maxZoom) of the Web-Mercator row fraction
\*   0.5 + 0.5 * ln((1 + sin lat) / (1 - sin lat)) / (-2 pi)
\* for the latitudes of the model, tabulated from the float64 computation
MercatorRow(lat) ==
    CASE lat = -8505 -> 8191
      [] lat = -6000 -> 5813
      [] lat = -3387 -> 4915
      [] lat = 0     -> 4096
      [] lat = 3990  -> 3104
      [] lat = 4073  -> 3079
      [] lat = 4075  -> 3078
      [] lat = 5150  -> 2724
      [] lat = 6000  -> 2378
      [] lat = 8505  -> 0

\* the column fraction rounded to the nearest integer instead of truncated
FractionXRounded(lon, z) == ((lon + 18000) * Pow2(z) + 18000) \div 36000

\* uint32 of the column fraction (lon/360 + 0.5) * 2^z: the multiplication by
\* a power of two is exact, and the conversion truncates. Longitudes below
\* -180 (a negative float converted to uint32) are not drawn by the model.
FractionX(lon, z) == ((lon + 18000) * Pow2(z)) \div 36000

\* uint32 of the row fraction: latitudes beyond +-85.0511 are snapped to the
\* last and the first row, the others are projected
FractionY(lat, z) ==
    IF lat * 100 < -850511 THEN Pow2(z) - 1
    ELSE IF lat * 100 > 850511 THEN 0
    ELSE MercatorRow(lat) \div Pow2(maxZoom - z)

At(loc, z) == [X |-> FractionX(loc.lon, z), Y |-> FractionY(loc.lat, z), Z |-> z]

----------------------------------------------------------------------------
(* Records and their tile stacks *)

\* Tile (main.go:38-42); the unexported orbmaptile pointer is a cache of the
\* same (X, Y, Z) and is not stored
Tile(loc, z) ==
    LET t == At(loc, z)
    IN  [X |-> t.X, Y |-> t.Y, Z |-> z, Key |-> Sprintf(t.X, t.Y, z)]

\* the loop with z <= maxZoom + 1 for its condition
RECURSIVE LevelsLoopPastMax(_, _, _)
LevelsLoopPastMax(levels, loc, z) ==
    IF z > maxZoom + 1 THEN levels
    ELSE LevelsLoopPastMax(Append(levels, Tile(loc, z)), loc, z + 1)

\* the loop of SetLevels from zoom z on (main.go:60-71)
RECURSIVE LevelsLoop(_, _, _)
LevelsLoop(levels, loc, z) ==
    IF z > maxZoom THEN levels
    ELSE LevelsLoop(Append(levels, Tile(loc, z)), loc, z + 1)

\* SetLevels without the reset of main.go:59
SetLevelsKeepOld(r) ==
    [r EXCEPT !.Levels = LevelsLoop(r.Levels, r.Location, minZoom)]

\* Record.SetLevels (main.go:58-72): the stack is emptied, then rebuilt
SetLevels(r) ==
    [r EXCEPT !.Levels = LevelsLoop(<<>>, r.Location, minZoom)]

\* a Record before SetLevels (main.go:103-106): Levels is the nil slice
NewRecord(id, loc) == [ID |-> id, Location |-> loc, Levels |-> <<>>]

\* the valid range of a point (spec section 3)
ValidPoint(loc) ==
    /\ loc.lon >= -18000 /\ loc.lon <= 18000
    /\ loc.lat >= -8505 /\ loc.lat <= 8505

----------------------------------------------------------------------------
(* Decoding a group into a feature *)

\* the index expressions parts[1], parts[2] of main.go:120 panic (index out
\* of range) when the key has fewer than three parts
DecodePanics(raw) == Len(Split(raw.ID, "-")) < 3

\* FromRawStatsToGeoJSONFeatureItem (main.go:118-136) when it does not panic:
\* the three ParseInt errors are dropped, the values (0 on an error) are used.
\* Geometry holds the tile whose Center() gives the coordinates.
FromRawStatsToGeoJSONFeatureItem(raw) ==
    LET parts == Split(raw.ID, "-")
        x == ParseInt(parts[1]).val
        y == ParseInt(parts[2]).val
        z == ParseInt(parts[3]).val
    IN  [Type       |-> "Feature",
         Properties |-> [count |-> raw.Count, tileKey |-> raw.ID],
         Geometry   |-> [Type |-> "Point", CenterOf |-> [X |-> x, Y |-> y, Z |-> z]]]

\* the loop of demo over the decoded groups (main.go:176-179)
RECURSIVE DecodeAll(_)
DecodeAll(rawRes) ==
    IF rawRes = <<>> THEN <<>>
    ELSE <<FromRawStatsToGeoJSONFeatureItem(Head(rawRes))>> \o DecodeAll(Tail(rawRes))

AnyDecodePanics(rawRes) == \E i \in 1..Len(rawRes) : DecodePanics(rawRes[i])

\* GeoJSONFeatures (main.go:180-183)
FeatureCollection(res) == [Type |-> "FeatureCollection", Features |-> res]

----------------------------------------------------------------------------
(* The aggregation pipeline of demo (main.go:150-166), one document at a time *)

\* stage 1, $match {"levels.z": level}: the document has a tile at the level
MatchLevel(rec, lv) == \E i \in 1..Len(rec.Levels) : rec.Levels[i].Z = lv

\* $unwind that keeps the first tile of the stack only
UnwindFirstOnly(rec) ==
    [i \in 1..(IF rec.Levels = <<>> THEN 0 ELSE 1) |->
        [ID |-> rec.ID, Location |-> rec.Location, Levels |-> rec.Levels[i]]]

\* stage 2, $unwind "$levels": one document per tile of the stack
Unwind(rec) ==
    [i \in 1..Len(rec.Levels) |->
        [ID |-> rec.ID, Location |-> rec.Location, Levels |-> rec.Levels[i]]]

\* stage 3, $match {"levels.z": level} on the unwound documents
MatchUnwound(doc, lv) == doc.Levels.Z = lv

\* $group that sets the count of the document's group to 1
GroupAddOverwrite(acc, doc) ==
    LET k == doc.Levels.Key
    IN  [q \in DOMAIN acc \cup {k} |-> IF q = k THEN 1 ELSE acc[q]]

\* stage 4, $group {_id: "$levels.key", count: {$sum: 1}}: one more for the
\* group of the document's key
GroupAdd(acc, doc) ==
    LET k == doc.Levels.Key
    IN  [q \in DOMAIN acc \cup {k} |->
            IF q = k THEN (IF k \in DOMAIN acc THEN acc[k] + 1 ELSE 1) ELSE acc[q]]

RECURSIVE GroupAll(_, _)
GroupAll(acc, docs) ==
    IF docs = <<>> THEN acc ELSE GroupAll(GroupAdd(acc, Head(docs)), Tail(docs))

\* the four stages applied to one more document of the collection
Pipeline(acc, rec, lv) ==
    IF ~MatchLevel(rec, lv) THEN acc
    ELSE GroupAll(acc, SelectSeq(Unwind(rec), LAMBDA d : MatchUnwound(d, lv)))

\* the orders in which the groups may come back from the store
Orders(S) ==
    {o \in [1..Cardinality(S) -> S] : \A i, j \in DOMAIN o : o[i] = o[j] => i = j}

\* xmongo.Decode[RawStats] (main.go:171): the groups as RawStats, in order o
RawStatsOf(acc, o) == [i \in DOMAIN o |-> [ID |-> o[i], Count |-> acc[o[i]]]]

----------------------------------------------------------------------------
(* SetupDemoData (main.go:81-111) *)

\* the lines of the embedded CSV after its header: a "lat,long" pair, a line
\* that does not split into two parts (skipped), or a pair with a part that
\* ParseFloat rejects (panic)
\* NYC and Midtown share their tile at zoom 12 and split at zoom 13; OffMap
\* has a longitude beyond 180
NYC == [lon |-> -7399, lat |-> 4073]
Midtown == [lon |-> -7395, lat |-> 4075]
Beijing == [lon |-> 11639, lat |-> 3990]
OffMap == [lon |-> 20000, lat |-> 4073]

PointLine(l) == [kind |-> "point", loc |-> l]

Lines ==
    {PointLine(l) : l \in {NYC, Midtown, Beijing, OffMap}}
        \cup {[kind |-> "skip"], [kind |-> "bad"]}

\* the lines of the runs that overlap in time
ConcLines == {PointLine(NYC), PointLine(Beijing), [kind |-> "bad"]}

\* primitive.NewObjectID(): an identifier no other record has
NewObjectID(used) == CHOOSE n \in 1..(Cardinality(used) + 1) : n \notin used

\* the body of the loop for a line with two parsable parts (main.go:103-108)
AppendRecord(ret, loc, used) ==
    Append(ret, SetLevels(NewRecord(NewObjectID(used), loc)))

----------------------------------------------------------------------------
(* The program: runs of main against one collection *)

Procs == {"run1", "run2"}

\* the -level flag: the default 12, both ends of the zoom range, and a level
\* on either side of it
Levels == {minZoom - 1, minZoom, 12, maxZoom, maxZoom + 1}

\* the levels of the runs that overlap in time
ConcLevels == {minZoom, 12, maxZoom + 1}

VARIABLES
    store,      \* the collection: its documents in insertion order
    pc,         \* where each run of main is
    level,      \* the -level flag of each run
    demos,      \* the records of InsertMany not yet in the collection
    cursor,     \* how many documents the run's aggregation has read
    acc,        \* the groups of the run's $group stage so far: key -> count
    out,        \* the feature collection the run printed, or "none"
    startLen,   \* the size of the collection when the aggregation began
    endLen,     \* the size of the collection when the aggregation ended
    r,          \* SpecTile: a record whose stack is built and rebuilt
    calls,      \* SpecTile: how many times SetLevels ran on r
    first,      \* SpecTile: the stack the first SetLevels built
    tileA,      \* SpecKey: a tile
    tileB,      \* SpecKey: another tile, or the same
    keyA,       \* SpecKey: the key formatted for tileA
    keyB,       \* SpecKey: the key formatted for tileB
    decoded,    \* SpecKey: the tiles decoded from keyA (none or one)
    keypc,      \* SpecKey: "fresh", "formatted", "decoded" or "panic_index"
    rawRes,     \* SpecRaw: the groups the store returned
    res,        \* SpecRaw: the features decoded so far
    rawpc       \* SpecRaw: "decoding", "printed" or "panic_index"

progVars == <<store, pc, level, demos, cursor, acc, out, startLen, endLen>>
tileVars == <<r, calls, first>>
keyVars == <<tileA, tileB, keyA, keyB, decoded, keypc>>
rawVars == <<rawRes, res, rawpc>>
vars == <<progVars, tileVars, keyVars, rawVars>>

EmptyAcc == [k \in {} |-> 0]

ProgInit ==
    /\ store = <<>>
    /\ pc = [p \in Procs |-> "idle"]
    /\ level = [p \in Procs |-> 12]
    /\ demos = [p \in Procs |-> <<>>]
    /\ cursor = [p \in Procs |-> 0]
    /\ acc = [p \in Procs |-> EmptyAcc]
    /\ out = [p \in Procs |-> "none"]
    /\ startLen = [p \in Procs |-> 0]
    /\ endLen = [p \in Procs |-> 0]

\* the variables of the other specifications, at rest
TileIdle == r = NewRecord(0, NYC) /\ calls = 0 /\ first = <<>>

KeyIdle ==
    /\ tileA = [X |-> 0, Y |-> 0, Z |-> 0]
    /\ tileB = [X |-> 0, Y |-> 0, Z |-> 0]
    /\ keyA = <<>>
    /\ keyB = <<>>
    /\ decoded = <<>>
    /\ keypc = "fresh"

RawIdle == rawRes = <<>> /\ res = <<>> /\ rawpc = "decoding"

\* the identifiers of the records in the collection or waiting to be inserted
UsedIDs ==
    {store[i].ID : i \in 1..Len(store)}
        \cup UNION {{demos[p][i].ID : i \in 1..Len(demos[p])} : p \in Procs}

Pending == Len(store) + Len(demos["run1"]) + Len(demos["run2"])

\* demo's aggregation starts: the cursor is opened on the collection of n
\* documents. The -level flag is read here: main does not use it before
OpenCursor(p, n, lvs) ==
    /\ \E lv \in lvs : level' = [level EXCEPT ![p] = lv]
    /\ cursor' = [cursor EXCEPT ![p] = 0]
    /\ acc' = [acc EXCEPT ![p] = EmptyAcc]
    /\ startLen' = [startLen EXCEPT ![p] = n]

\* main without -insert (main.go:189-219): straight to demo
StartQuery(p, lvs) ==
    /\ pc[p] = "idle"
    /\ pc' = [pc EXCEPT ![p] = "scan"]
    /\ OpenCursor(p, Len(store), lvs)
    /\ UNCHANGED <<store, demos, out, endLen>>

\* main with -insert (main.go:211-212): SetupDemoData starts with an empty
\* slice (main.go:83)
StartInsert(p) ==
    /\ pc[p] = "idle"
    /\ pc' = [pc EXCEPT ![p] = "setup"]
    /\ demos' = [demos EXCEPT ![p] = <<>>]
    /\ UNCHANGED <<store, level, cursor, acc, out, startLen, endLen>>

\* one turn of the loop of SetupDemoData (main.go:84-109) on a line drawn
\* from csv: a line without two parts is skipped, a part that ParseFloat
\* rejects panics, and any other line appends a record with its stack
SetupLine(p, csv) ==
    /\ pc[p] = "setup"
    /\ \E line \in csv :
        CASE line.kind = "skip" -> UNCHANGED <<pc, demos>>
          [] line.kind = "bad" ->
                /\ pc' = [pc EXCEPT ![p] = "panic_parse"]
                /\ demos' = [demos EXCEPT ![p] = <<>>]
          [] line.kind = "point" ->
                /\ Len(demos[p]) < MaxBatch
                /\ Pending < MaxRecords
                /\ demos' = [demos EXCEPT ![p] = AppendRecord(demos[p], line.loc, UsedIDs)]
                /\ UNCHANGED pc
    /\ UNCHANGED <<store, level, cursor, acc, out, startLen, endLen>>

\* the lines are exhausted and InsertMany is called (main.go:213): with no
\* document it returns an error of the driver, and main panics on it
\* (main.go:214-216)
CallInsertMany(p) ==
    /\ pc[p] = "setup"
    /\ pc' = [pc EXCEPT ![p] = IF demos[p] = <<>> THEN "panic_insert" ELSE "insert"]
    /\ UNCHANGED <<store, level, demos, cursor, acc, out, startLen, endLen>>

\* InsertMany writes the documents of the batch one by one, in order; after
\* the last one main goes on to demo
InsertOne(p, lvs) ==
    /\ pc[p] = "insert"
    /\ store' = Append(store, Head(demos[p]))
    /\ demos' = [demos EXCEPT ![p] = Tail(demos[p])]
    /\ IF Tail(demos[p]) = <<>>
       THEN /\ pc' = [pc EXCEPT ![p] = "scan"]
            /\ OpenCursor(p, Len(store) + 1, lvs)
       ELSE UNCHANGED <<pc, level, cursor, acc, startLen>>
    /\ UNCHANGED <<out, endLen>>

\* a cursor that returns the newest document of the collection
NextDocumentNewest(st, c) == st[Len(st)]

\* the document a cursor that has read c documents returns next
NextDocument(st, c) == st[c + 1]

\* the pipeline reads the next document of the collection (main.go:167)
ScanOne(p) ==
    /\ pc[p] = "scan"
    /\ cursor[p] < Len(store)
    /\ acc' = [acc EXCEPT ![p] = Pipeline(acc[p], NextDocument(store, cursor[p]), level[p])]
    /\ cursor' = [cursor EXCEPT ![p] = cursor[p] + 1]
    /\ UNCHANGED <<store, pc, level, demos, out, startLen, endLen>>

\* the cursor is exhausted: it has returned every document that was in the
\* collection when it was opened, and any number of those inserted since (the
\* store promises no isolation from inserts). The groups are decoded in the
\* order the store returns them, turned into features and printed
\* (main.go:171-186); a key with fewer than three parts panics before
\* anything is printed
Finish(p) ==
    /\ pc[p] = "scan"
    /\ cursor[p] >= startLen[p]
    /\ endLen' = [endLen EXCEPT ![p] = Len(store)]
    /\ \E o \in Orders(DOMAIN acc[p]) :
        LET raws == RawStatsOf(acc[p], o)
        IN  IF AnyDecodePanics(raws)
            THEN /\ pc' = [pc EXCEPT ![p] = "panic_index"]
                 /\ UNCHANGED out
            ELSE /\ pc' = [pc EXCEPT ![p] = "done"]
                 /\ out' = [out EXCEPT ![p] = FeatureCollection(DecodeAll(raws))]
    /\ UNCHANGED <<store, level, demos, cursor, acc, startLen>>

\* the process ends; the next run of the program starts afresh
Exit(p) ==
    /\ pc[p] \in {"done", "panic_parse", "panic_insert", "panic_index"}
    /\ pc' = [pc EXCEPT ![p] = "idle"]
    /\ level' = [level EXCEPT ![p] = 12]
    /\ cursor' = [cursor EXCEPT ![p] = 0]
    /\ acc' = [acc EXCEPT ![p] = EmptyAcc]
    /\ out' = [out EXCEPT ![p] = "none"]
    /\ startLen' = [startLen EXCEPT ![p] = 0]
    /\ endLen' = [endLen EXCEPT ![p] = 0]
    /\ UNCHANGED <<store, demos>>

Init == ProgInit /\ TileIdle /\ KeyIdle /\ RawIdle

\* one run of the program after another, each at any level
Next ==
    /\ \/ StartQuery("run1", Levels)
       \/ StartInsert("run1")
       \/ SetupLine("run1", Lines)
       \/ CallInsertMany("run1")
       \/ InsertOne("run1", Levels)
       \/ ScanOne("run1")
       \/ Finish("run1")
       \/ Exit("run1")
    /\ UNCHANGED <<tileVars, keyVars, rawVars>>

Spec == Init /\ [][Next]_vars

\* two runs of the program at the same time, again and again: run1 with
\* -insert (a bulk insert, then its aggregation), run2 without (an
\* aggregation only), so that run2's aggregations overlap run1's inserts
ConcNext ==
    /\ \/ StartInsert("run1")
       \/ SetupLine("run1", ConcLines)
       \/ CallInsertMany("run1")
       \/ InsertOne("run1", ConcLevels)
       \/ StartQuery("run2", ConcLevels)
       \/ \E p \in Procs : ScanOne(p)
       \/ \E p \in Procs : Finish(p)
       \/ \E p \in Procs : Exit(p)
    /\ UNCHANGED <<tileVars, keyVars, rawVars>>

SpecConc == Init /\ [][ConcNext]_vars

----------------------------------------------------------------------------
(* SetLevels on its own: a record at any point of a grid, built and rebuilt *)

\* most calls of SetLevels on the record
MaxCalls == 2

TileLons == {-18000, -7399, -7395, 0, 11639, 17999, 18000, 20000, 54000}

\* the last three are beyond +-85.0511
TileLats == {-8505, -6000, -3387, 0, 3990, 4073, 4075, 5150, 6000, 8505, -8600, 8600, 9000}

TileInit ==
    /\ \E lon \in TileLons, lat \in TileLats : r = NewRecord(0, [lon |-> lon, lat |-> lat])
    /\ calls = 0
    /\ first = <<>>
    /\ ProgInit /\ KeyIdle /\ RawIdle

CallSetLevels ==
    /\ calls < MaxCalls
    /\ r' = SetLevels(r)
    /\ calls' = calls + 1
    /\ first' = IF calls = 0 THEN r'.Levels ELSE first
    /\ UNCHANGED <<progVars, keyVars, rawVars>>

TileNext == CallSetLevels

SpecTile == TileInit /\ [][TileNext]_vars

----------------------------------------------------------------------------
(* The tile key on its own: formatted by the indexer, decoded by the aggregator *)

KeyCoords == {0, 1, 2, 11, 12, 21, 111, 112}

KeyZooms == {0, 1, 2, 4, 12}

\* the tiles of the sample that are tiles of their zoom level
KeyTiles ==
    {t \in [X : KeyCoords, Y : KeyCoords, Z : KeyZooms] :
        t.X < Pow2(t.Z) /\ t.Y < Pow2(t.Z)}

KeyInit ==
    /\ tileA \in KeyTiles
    /\ tileB \in KeyTiles
    /\ keyA = <<>>
    /\ keyB = <<>>
    /\ decoded = <<>>
    /\ keypc = "fresh"
    /\ ProgInit /\ TileIdle /\ RawIdle

\* main.go:68 for both tiles
FormatKeys ==
    /\ keypc = "fresh"
    /\ keyA' = Sprintf(tileA.X, tileA.Y, tileA.Z)
    /\ keyB' = Sprintf(tileB.X, tileB.Y, tileB.Z)
    /\ keypc' = "formatted"
    /\ UNCHANGED <<tileA, tileB, decoded, progVars, tileVars, rawVars>>

\* main.go:119-124 on the group of keyA
DecodeKey ==
    /\ keypc = "formatted"
    /\ LET raw == [ID |-> keyA, Count |-> 1]
       IN  IF DecodePanics(raw)
           THEN keypc' = "panic_index" /\ UNCHANGED decoded
           ELSE /\ keypc' = "decoded"
                /\ decoded' = <<FromRawStatsToGeoJSONFeatureItem(raw).Geometry.CenterOf>>
    /\ UNCHANGED <<tileA, tileB, keyA, keyB, progVars, tileVars, rawVars>>

KeyNext == FormatKeys \/ DecodeKey

SpecKey == KeyInit /\ [][KeyNext]_vars

----------------------------------------------------------------------------
(* Decoding on its own: the loop of demo over groups with any key *)

KeyChars == {"1", "a", "-"}

RawIDs == UNION {[1..n -> KeyChars] : n \in 0..MaxKeyLen}

GoodRaw == [ID |-> Sprintf(1, 1, 1), Count |-> 3]

\* one group with any key, alone, before or after a group with a good key
RawInputs ==
    UNION {{<<[ID |-> id, Count |-> 1]>>,
            <<[ID |-> id, Count |-> 1], GoodRaw>>,
            <<GoodRaw, [ID |-> id, Count |-> 1]>>} : id \in RawIDs}

RawInit ==
    /\ rawRes \in RawInputs
    /\ res = <<>>
    /\ rawpc = "decoding"
    /\ ProgInit /\ TileIdle /\ KeyIdle

\* one turn of the loop (main.go:177-179)
DecodeNext ==
    /\ rawpc = "decoding"
    /\ Len(res) < Len(rawRes)
    /\ LET item == rawRes[Len(res) + 1]
       IN  IF DecodePanics(item)
           THEN rawpc' = "panic_index" /\ res' = <<>>
           ELSE /\ res' = Append(res, FromRawStatsToGeoJSONFeatureItem(item))
                /\ UNCHANGED rawpc
    /\ UNCHANGED <<rawRes, progVars, tileVars, keyVars>>

\* main.go:180-186
EmitFeatures ==
    /\ rawpc = "decoding"
    /\ Len(res) = Len(rawRes)
    /\ rawpc' = "printed"
    /\ UNCHANGED <<rawRes, res, progVars, tileVars, keyVars>>

RawNext == DecodeNext \/ EmitFeatures

SpecRaw == RawInit /\ [][RawNext]_vars

----------------------------------------------------------------------------
(* What the claims are stated with *)

InRange(lv) == lv >= minZoom /\ lv <= maxZoom

RECURSIVE SumCounts(_)
SumCounts(features) ==
    IF features = <<>> THEN 0
    ELSE Head(features).Properties.count + SumCounts(Tail(features))

\* the collection when it held n documents (documents are only ever appended)
ReadBy(n) == SubSeq(store, 1, n)

\* the positions of the documents of docs with a tile at zoom lv
MembersAt(docs, lv) ==
    {i \in 1..Len(docs) : \E j \in 1..Len(docs[i].Levels) : docs[i].Levels[j].Z = lv}

\* the positions of the documents of docs whose tile at zoom lv has key k
WithKey(docs, lv, k) ==
    {i \in 1..Len(docs) :
        \E j \in 1..Len(docs[i].Levels) :
            docs[i].Levels[j].Z = lv /\ docs[i].Levels[j].Key = k}

KeysAt(docs, lv) ==
    {docs[i].Levels[j].Key : <<i, j>> \in
        {ij \in (1..Len(docs)) \X (1..(maxZoom - minZoom + 1)) :
            ij[2] <= Len(docs[ij[1]].Levels) /\ docs[ij[1]].Levels[ij[2]].Z = lv}}

\* the count the feature collection gives for key k (0 when it has no group)
CountFor(features, k) ==
    SumCounts(SelectSeq(features, LAMBDA f : f.Properties.tileKey = k))

Done(p) == pc[p] = "done"

----------------------------------------------------------------------------
(* The claims *)

\* C1: when an aggregation at zoom z is done, the counts of its groups sum to
\* the number of stored records that have a tile at z: every such record is
\* counted once.
C1_CountConservation ==
    \A p \in Procs :
        Done(p) =>
            SumCounts(out[p].Features) = Cardinality(MembersAt(store, level[p]))

C1_Witness ==
    /\ Done("run1")
    /\ InRange(level["run1"])
    /\ cursor["run1"] >= 3
    /\ SumCounts(out["run1"].Features) = 3
    /\ Len(out["run1"].Features) = 2

\* C2: when an aggregation at zoom z is done, there is exactly one group per
\* tile key that occurs at z among the stored records, and its count is the
\* number of records whose tile at z has that key.
C2_OneGroupPerKey ==
    \A p \in Procs :
        Done(p) =>
            LET fs == out[p].Features
                docs == store
            IN  /\ {fs[i].Properties.tileKey : i \in 1..Len(fs)} = KeysAt(docs, level[p])
                /\ \A i, j \in 1..Len(fs) :
                        fs[i].Properties.tileKey = fs[j].Properties.tileKey => i = j
                /\ \A i \in 1..Len(fs) :
                        fs[i].Properties.count
                            = Cardinality(WithKey(docs, level[p], fs[i].Properties.tileKey))

\* three records at NYC and one in Beijing, aggregated at zoom 12: two groups,
\* with counts 3 and 1
C2_Witness ==
    /\ Done("run1")
    /\ level["run1"] = 12
    /\ cursor["run1"] = 4
    /\ Cardinality({i \in 1..4 : store[i].Location = NYC}) = 3
    /\ Cardinality({i \in 1..4 : store[i].Location = Beijing}) = 1
    /\ Len(out["run1"].Features) = 2
    /\ {out["run1"].Features[i].Properties.count : i \in 1..2} = {3, 1}

\* C3: after SetLevels on a record at a valid point the stack has
\* maxZoom - minZoom + 1 tiles whose z runs from minZoom to maxZoom in steps
\* of one, and calling SetLevels again leaves the stack as the first call
\* built it.
C3_StackShape ==
    (calls >= 1 /\ ValidPoint(r.Location)) =>
        /\ Len(r.Levels) = maxZoom - minZoom + 1
        /\ \A i \in 1..Len(r.Levels) : r.Levels[i].Z = minZoom + i - 1
        /\ r.Levels = first

C3_Witness ==
    /\ calls = 2
    /\ ValidPoint(r.Location)
    /\ Len(r.Levels) = 14
    /\ r.Levels[14].Z = 13

\* C4: an aggregation at a zoom level outside [minZoom, maxZoom] does not
\* panic, and when it is done its feature collection is empty.
C4_OutsideRangeEmpty ==
    \A p \in Procs :
        ~InRange(level[p]) =>
            /\ pc[p] # "panic_index"
            /\ Done(p) => out[p].Features = <<>>

C4_Witness ==
    /\ Done("run1")
    /\ ~InRange(level["run1"])
    /\ cursor["run1"] >= 2
    /\ out["run1"].Features = <<>>

\* C5: the key formatted for a tile decodes to that tile, and two tiles with
\* the same key are the same tile.
C5_KeyBijective ==
    /\ keypc # "panic_index"
    /\ keypc = "decoded" => decoded = <<tileA>>
    /\ (keypc # "fresh" /\ keyA = keyB) => tileA = tileB

C5_Witness ==
    /\ keypc = "decoded"
    /\ decoded = <<tileA>>
    /\ tileA = [X |-> 11, Y |-> 1, Z |-> 12]
    /\ tileB = [X |-> 1, Y |-> 11, Z |-> 12]
    /\ keyA # keyB

\* C6: every tile of the stack built for a valid point has 0 <= x < 2^z and
\* 0 <= y < 2^z.
C6_TileInRange ==
    (calls >= 1 /\ ValidPoint(r.Location)) =>
        \A i \in 1..Len(r.Levels) :
            LET t == r.Levels[i]
            IN  /\ 0 <= t.X /\ t.X < Pow2(t.Z)
                /\ 0 <= t.Y /\ t.Y < Pow2(t.Z)

\* C7: in a stack built by SetLevels, the tile at a lower zoom is the ancestor
\* of the tile at any higher zoom.
C7_Nested ==
    calls >= 1 =>
        \A i, j \in 1..Len(r.Levels) :
            LET a == r.Levels[i]
                b == r.Levels[j]
            IN  a.Z < b.Z =>
                    /\ a.X = b.X \div Pow2(b.Z - a.Z)
                    /\ a.Y = b.Y \div Pow2(b.Z - a.Z)

C7_Witness ==
    /\ calls >= 1
    /\ r.Location = [lon |-> 0, lat |-> 4073]
    /\ r.Levels[1].X = 0
    /\ r.Levels[2].X = 1
    /\ r.Levels[14].X = 4096
    /\ r.Levels[14].Y = 3079

\* C8: no record of a point outside the valid range reaches the store.
C8_InvalidPointNotStored ==
    \A i \in 1..Len(store) : ValidPoint(store[i].Location)

\* a key that does not parse as x-y-z: fewer than three parts, or one of the
\* first three parts is not a number
Malformed(id) ==
    LET parts == Split(id, "-")
    IN  \/ Len(parts) < 3
        \/ \E i \in 1..3 : ParseInt(parts[i]).err

\* C9: when one of the groups has a malformed key, nothing is printed.
C9_MalformedKeyAborts ==
    rawpc = "printed" => \A i \in 1..Len(rawRes) : ~Malformed(rawRes[i].ID)

\* C10: when an aggregation is done, the count it gives for every tile key is
\* at least the number of matching documents in the collection when it began
\* and at most the number when it ended; and no step of an aggregation
\* changes the collection.
C10_CountBetween ==
    \A p \in Procs :
        Done(p) =>
            \A k \in KeysAt(store, level[p]) :
                LET n == CountFor(out[p].Features, k)
                IN  /\ n >= Cardinality(WithKey(ReadBy(startLen[p]), level[p], k))
                    /\ n <= Cardinality(WithKey(ReadBy(endLen[p]), level[p], k))

C10_ReadOnly == \A p \in Procs : (ScanOne(p) \/ Finish(p)) => store' = store

C10_Concurrent == []C10_CountBetween /\ [][C10_ReadOnly]_vars

\* run2's aggregation began on one record at NYC and ended on three, run1
\* inserting two more while it was reading: it read one of the two
C10_Witness ==
    /\ Done("run2")
    /\ level["run2"] = 12
    /\ startLen["run2"] = 1
    /\ cursor["run2"] = 2
    /\ endLen["run2"] = 3
    /\ \A i \in 1..3 : store[i].Location = NYC
    /\ CountFor(out["run2"].Features, Sprintf(1206, 1539, 12)) = 2

====
